---- MODULE Spec2Model ----
(***************************************************************************)
(* Model of packages/expo-permissions/src/ExpoPermissions.web.ts: the web  *)
(* implementation of getAsync / askAsync and the per-type resolution       *)
(* getPermissionAsync, run against a black-box browser host.               *)
(*                                                                         *)
(* One call of getAsync or askAsync is modelled from the invocation to the *)
(* settlement of the returned promise.  A step is the code that runs       *)
(* between two awaits of a host API: JavaScript runs it to completion.     *)
(* The host is a set of "facets" (does an API exist, what does a call of   *)
(* it answer); a facet is decided by the host the first time it is looked  *)
(* at and keeps that answer for the rest of the call, which is the fixed   *)
(* host environment of one call.  The host is a black box: its facets are  *)
(* independent of each other.                                              *)
(***************************************************************************)
EXTENDS Integers, Sequences, FiniteSets, TLC

(***************************************************************************)
(* Bounds: the length of the list passed to getAsync / askAsync, and the   *)
(* number of devices the host enumerates                                   *)
(***************************************************************************)
MaxLen == 2
MaxDevices == 1

(***************************************************************************)
(* Types of Permissions.types                                              *)
(***************************************************************************)
GRANTED == "granted"
DENIED == "denied"
UNDETERMINED == "undetermined"
NULL == "null"

NotificationTypes == {"userFacingNotifications", "notifications"}
QueriedTypes == {"location", "audioRecording", "camera"}
MediaTypes == {"audioRecording", "camera"}
\* "contacts" is a PermissionType that the web switch does not recognize.
PermissionTypes == NotificationTypes \cup QueriedTypes \cup {"contacts"}

NoInfo == [status |-> NULL, expires |-> NULL]
Info(status) == [status |-> status, expires |-> "never"]

(***************************************************************************)
(* The host.  host[F] = {} while facet F has not been looked at, and {v}   *)
(* once the host has answered v.                                           *)
(***************************************************************************)
None == <<"none", "">>
PermissionNames == {"notifications", "geolocation", "microphone", "camera"}
Constraints == {"audio", "video"}
\* MediaDeviceInfo of navigator.mediaDevices.enumerateDevices()
DeviceKinds == {"audioinput", "videoinput"}
Labels == {"", "Built-in"}
Devices == [kind : DeviceKinds, label : Labels]
DeviceLists == {ds \in SUBSET Devices : Cardinality(ds) <= MaxDevices}
\* SourceInfo of the deprecated MediaStreamTrack.getSources(): its kinds are
\* "audio" and "video"
LegacySources == {[kind |-> "audio", label |-> "Built-in"]}
PositionErrorCodes == {1, 2, 3}

HasQuery == <<"navigator.permissions.query", "">>
QueryOf(name) == <<"permissions.query()", name>>
HasRequestPermission == <<"Notification.requestPermission", "">>
NotificationPermission == <<"Notification.permission", "">>
RequestPermissionCall == <<"Notification.requestPermission()", "">>
HasGeolocation == <<"navigator.geolocation", "">>
GetCurrentPositionCall == <<"geolocation.getCurrentPosition()", "">>
GetUserMediaImpl == <<"getUserMedia", "">>
GetUserMediaCall(impl, c) == <<impl, c>>
EnumerateImpl == <<"enumerateDevices", "">>
EnumerateCall(impl) == <<impl, "enumerate">>
GetUserMediaImpls == {"mediaDevices.getUserMedia()", "navigator.getUserMedia()"}
EnumerateImpls == {"mediaDevices.enumerateDevices()", "MediaStreamTrack.getSources()"}

Facets ==
  {HasQuery, HasRequestPermission, NotificationPermission, RequestPermissionCall,
   HasGeolocation, GetCurrentPositionCall, GetUserMediaImpl, EnumerateImpl}
  \cup {QueryOf(n) : n \in PermissionNames}
  \cup {GetUserMediaCall(i, c) : i \in GetUserMediaImpls, c \in Constraints}
  \cup {EnumerateCall(i) : i \in EnumerateImpls}

FacetDomain(F) ==
  CASE F \in {HasQuery, HasRequestPermission, HasGeolocation} -> {"present", "absent"}
    [] F[1] = "permissions.query()" ->
         {"prompt", "granted", "denied", "unknown-state", "reject"}
    [] F = NotificationPermission -> {"", "default", "granted", "denied"}
    [] F = RequestPermissionCall -> {"", "default", "granted", "denied", "reject"}
    [] F = GetCurrentPositionCall ->
         {[ok |-> TRUE, code |-> 0]} \cup {[ok |-> FALSE, code |-> c] : c \in PositionErrorCodes}
    [] F = GetUserMediaImpl -> GetUserMediaImpls \cup {"unimplemented"}
    [] F[1] = "mediaDevices.getUserMedia()" ->
         {[ok |-> TRUE, message |-> ""]}
         \cup {[ok |-> FALSE, message |-> m] :
                 m \in {"Permission dismissed", "Permission denied", "Requested device not found"}}
    [] F[1] = "navigator.getUserMedia()" ->
         {[ok |-> TRUE, message |-> ""], [ok |-> FALSE, message |-> "Permission denied"]}
    [] F = EnumerateImpl -> EnumerateImpls \cup {"unsupported"}
    [] F = EnumerateCall("mediaDevices.enumerateDevices()") ->
         {[outcome |-> "reject", devices |-> {}], [outcome |-> "null", devices |-> {}]}
         \cup {[outcome |-> "list", devices |-> ds] : ds \in DeviceLists}
    [] F = EnumerateCall("MediaStreamTrack.getSources()") ->
         {[outcome |-> "reject", devices |-> {}], [outcome |-> "null", devices |-> {}],
          [outcome |-> "list", devices |-> LegacySources]}

Val(h, F) == CHOOSE v \in h[F] : TRUE
Observed(h, F) == h[F] # {}

\* The hosts that h can become when facet F is looked at.
Reveal(h, F) ==
  IF F = None \/ Observed(h, F) THEN {h}
  ELSE {[h EXCEPT ![F] = {v}] : v \in FacetDomain(F)}

(***************************************************************************)
(* One resolution: a frame of getPermissionAsync.                          *)
(*   pc          the await the resolution is at                            *)
(*   maybeStatus the result of getPermissionWithQueryAsync                 *)
(*   info        the PermissionInfo returned                               *)
(*   trail       the functions of the module entered so far                *)
(*   calls       the host APIs invoked so far                              *)
(***************************************************************************)
NewFrame(permission) ==
  [permission |-> permission, pc |-> "switch", maybeStatus |-> NULL,
   info |-> NoInfo, trail |-> <<>>, calls |-> <<>>]

Goto(f, pc) == [f EXCEPT !.pc = pc]
Return(f, status) == [f EXCEPT !.pc = "returned", !.info = Info(status)]
Throw(f) == [f EXCEPT !.pc = "thrown"]
Enter(f, fn) == [f EXCEPT !.trail = Append(@, fn)]
Invoke(f, api) == [f EXCEPT !.calls = Append(@, api)]

QueryName(permission) ==
  CASE permission \in NotificationTypes -> "notifications"
    [] permission = "location" -> "geolocation"
    [] permission = "audioRecording" -> "microphone"
    [] permission = "camera" -> "camera"
    [] OTHER -> NULL


\* The browser's own permission state for a recognized type is part of the
\* environment of its resolution, so the host decides it when the resolution
\* begins (pc = "switch", in LoopNext), also on the paths that never ask for it.
Facet1(f) ==
  CASE f.pc = "switch" -> IF QueryName(f.permission) # NULL THEN HasQuery ELSE None
    [] f.pc = "query" -> HasQuery
    [] f.pc = "notification" -> HasRequestPermission
    [] f.pc = "requestPermission" -> RequestPermissionCall
    [] f.pc = "askLocation" -> HasGeolocation
    [] f.pc = "askMedia" -> GetUserMediaImpl
    [] f.pc = "enumerate" -> EnumerateImpl
    [] OTHER -> None

Constraint(permission) == IF permission = "audioRecording" THEN "audio" ELSE "video"

\* Notification.permission is read at line 142 and overwritten at line 144
\* when shouldAsk, so the host only has to decide it when not asking.
Facet2(f, shouldAsk, h) ==
  CASE f.pc \in {"switch", "query"} ->
         IF QueryName(f.permission) # NULL /\ Val(h, HasQuery) = "present"
         THEN QueryOf(QueryName(f.permission)) ELSE None
    [] f.pc = "notification" ->
         IF Val(h, HasRequestPermission) = "present" /\ ~shouldAsk
         THEN NotificationPermission ELSE None
    [] f.pc = "askLocation" ->
         IF Val(h, HasGeolocation) = "present" THEN GetCurrentPositionCall ELSE None
    [] f.pc = "askMedia" ->
         IF Val(h, GetUserMediaImpl) # "unimplemented"
         THEN GetUserMediaCall(Val(h, GetUserMediaImpl), Constraint(f.permission)) ELSE None
    [] f.pc = "enumerate" ->
         IF Val(h, EnumerateImpl) # "unsupported"
         THEN EnumerateCall(Val(h, EnumerateImpl)) ELSE None
    [] OTHER -> None

(***************************************************************************)
(* getPermissionWithQueryAsync                                             *)
(***************************************************************************)
StateToStatusSwapped(state) ==
  CASE state = "prompt" -> UNDETERMINED
    [] state = "granted" -> DENIED
    [] state = "denied" -> GRANTED
    [] OTHER -> NULL

StateToStatus(state) ==
  CASE state = "prompt" -> UNDETERMINED
    [] state = "granted" -> GRANTED
    [] state = "denied" -> DENIED
    [] OTHER -> NULL

getPermissionWithQueryAsync(f, h) ==
  LET g == Enter(f, "getPermissionWithQueryAsync")
      name == QueryName(f.permission)
  IN IF Val(h, HasQuery) = "absent"
     THEN [Goto(g, "afterQuery") EXCEPT !.maybeStatus = NULL]
     ELSE LET c == Invoke(g, QueryOf(name))
              state == Val(h, QueryOf(name))
          IN IF state = "reject"
             THEN Throw(c)
             ELSE [Goto(c, "afterQuery") EXCEPT !.maybeStatus = StateToStatus(state)]

(***************************************************************************)
(* _getUserMedia, askForMediaPermissionAsync                               *)
(***************************************************************************)
getUserMedia(constraints, h) ==
  IF Val(h, GetUserMediaImpl) = "unimplemented"
  THEN [ok |-> FALSE, message |-> "Permission unimplemented"]
  ELSE Val(h, GetUserMediaCall(Val(h, GetUserMediaImpl), constraints))

MediaStatusDismissedDenied(outcome) ==
  IF outcome.ok THEN GRANTED
  ELSE IF outcome.message = "Permission dismissed" THEN DENIED
  ELSE UNDETERMINED

MediaStatus(outcome) ==
  IF outcome.ok THEN GRANTED
  ELSE IF outcome.message = "Permission dismissed" THEN UNDETERMINED
  ELSE DENIED

askForMediaPermissionAsync(f, h) ==
  LET g == Enter(f, "askForMediaPermissionAsync")
      constraints == Constraint(f.permission)
      c == IF Val(h, GetUserMediaImpl) = "unimplemented" THEN g
           ELSE Invoke(g, GetUserMediaCall(Val(h, GetUserMediaImpl), constraints))
  IN Return(c, MediaStatus(getUserMedia(constraints, h)))

(***************************************************************************)
(* askForLocationPermissionAsync                                           *)
(***************************************************************************)
PositionStatusWrongCode(position) ==
  IF position.ok THEN GRANTED
  ELSE IF position.code = 2 THEN DENIED
  ELSE UNDETERMINED

PositionStatus(position) ==
  IF position.ok THEN GRANTED
  ELSE IF position.code = 1 THEN DENIED
  ELSE UNDETERMINED

\* Without navigator.geolocation line 72 throws a TypeError inside the promise
\* executor, which rejects the promise.
askForLocationPermissionAsync(f, h) ==
  LET g == Enter(f, "askForLocationPermissionAsync")
  IN IF Val(h, HasGeolocation) = "absent"
     THEN Throw(g)
     ELSE Return(Invoke(g, GetCurrentPositionCall),
                 PositionStatus(Val(h, GetCurrentPositionCall)))

(***************************************************************************)
(* enumerateDevices, getMediaMaybeGrantedAsync                             *)
(***************************************************************************)
TargetKind(permission) == IF permission = "audioRecording" THEN "audioinput" ELSE "videoinput"

enumerateDevices(h) ==
  IF Val(h, EnumerateImpl) = "unsupported"
  THEN [outcome |-> "null", devices |-> {}]
  ELSE Val(h, EnumerateCall(Val(h, EnumerateImpl)))

MaybeGranted(devices, targetKind) ==
  \E d \in devices : d.kind = targetKind /\ d.label # ""

getMediaMaybeGrantedAsync(f, h) ==
  LET g == Enter(f, "getMediaMaybeGrantedAsync")
      c == IF Val(h, EnumerateImpl) = "unsupported" THEN g
           ELSE Invoke(g, EnumerateCall(Val(h, EnumerateImpl)))
      r == enumerateDevices(h)
  IN IF r.outcome = "reject" THEN Throw(c)
     ELSE IF r.outcome = "list" /\ MaybeGranted(r.devices, TargetKind(f.permission))
     THEN Return(c, GRANTED)
     ELSE Return(c, UNDETERMINED)

(***************************************************************************)
(* getPermissionAsync                                                      *)
(***************************************************************************)
SwitchDefaultFallsIntoCamera(f, shouldAsk) ==
  IF f.permission \in NotificationTypes
  THEN IF ~shouldAsk THEN Goto(f, "query") ELSE Goto(f, "notification")
  ELSE IF f.permission \in QueriedTypes
  THEN Goto(f, "query")
  ELSE Goto(f, "askMedia")

Switch(f, shouldAsk) ==
  IF f.permission \in NotificationTypes
  THEN IF ~shouldAsk THEN Goto(f, "query") ELSE Goto(f, "notification")
  ELSE IF f.permission \in QueriedTypes
  THEN Goto(f, "query")
  ELSE Return(f, UNDETERMINED)

TakesAskBranchIgnoringFlag(maybeStatus, shouldAsk) ==
  IF maybeStatus # NULL
  THEN maybeStatus = UNDETERMINED
  ELSE TRUE

TakesAskBranch(maybeStatus, shouldAsk) ==
  IF maybeStatus # NULL
  THEN maybeStatus = UNDETERMINED /\ shouldAsk
  ELSE shouldAsk

AfterQuery(f, shouldAsk) ==
  IF f.permission \in NotificationTypes
  THEN IF f.maybeStatus # NULL
       THEN Return(f, f.maybeStatus)
       ELSE Goto(f, "notification")
  ELSE IF TakesAskBranch(f.maybeStatus, shouldAsk)
  THEN Goto(f, IF f.permission = "location" THEN "askLocation" ELSE "askMedia")
  ELSE IF f.maybeStatus # NULL
  THEN Return(f, f.maybeStatus)
  ELSE IF f.permission \in MediaTypes
  THEN Goto(f, "enumerate")
  ELSE Return(f, UNDETERMINED)

NotificationStatus(status) ==
  IF status = "" \/ status = "default" THEN UNDETERMINED ELSE status

NotificationBranch(f, shouldAsk, h) ==
  IF Val(h, HasRequestPermission) = "absent"
  THEN Return(f, UNDETERMINED)
  ELSE IF shouldAsk
  THEN Goto(f, "requestPermission")
  ELSE Return(f, NotificationStatus(Val(h, NotificationPermission)))

requestPermission(f, h) ==
  LET c == Invoke(f, RequestPermissionCall)
      status == Val(h, RequestPermissionCall)
  IN IF status = "reject" THEN Throw(c) ELSE Return(c, NotificationStatus(status))

\* The code that runs without a host call in between: the switch on entry,
\* and the branch on maybeStatus when getPermissionWithQueryAsync has returned.
ToAwait(f, shouldAsk) ==
  CASE f.pc = "switch" -> Switch(f, shouldAsk)
    [] f.pc = "afterQuery" -> AfterQuery(f, shouldAsk)
    [] OTHER -> f

\* The resolution from one await to the next.
AtAwait(f, shouldAsk, h) ==
  CASE f.pc = "query" -> getPermissionWithQueryAsync(f, h)
    [] f.pc = "notification" -> NotificationBranch(f, shouldAsk, h)
    [] f.pc = "requestPermission" -> requestPermission(f, h)
    [] f.pc = "askLocation" -> askForLocationPermissionAsync(f, h)
    [] f.pc = "askMedia" -> askForMediaPermissionAsync(f, h)
    [] f.pc = "enumerate" -> getMediaMaybeGrantedAsync(f, h)

StepFn(f, shouldAsk, h) == ToAwait(AtAwait(f, shouldAsk, h), shouldAsk)

Settled(f) == f.pc \in {"returned", "thrown"}

RECURSIVE getPermissionAsync(_, _, _)
getPermissionAsync(f, shouldAsk, h) ==
  IF Settled(f) THEN f
  ELSE IF f.pc = "switch" THEN getPermissionAsync(ToAwait(f, shouldAsk), shouldAsk, h)
  ELSE getPermissionAsync(StepFn(f, shouldAsk, h), shouldAsk, h)


(***************************************************************************)
(* getAsync / askAsync                                                     *)
(***************************************************************************)
VARIABLES
  pc,               \* "idle", "running", "returned" or "rejected": the call's promise
  permissionTypes,  \* the argument of the call
  shouldAsk,        \* FALSE in getAsync, TRUE in askAsync
  iterator,         \* what the for-of loop over the Set has still to visit
  results,          \* the PermissionMap under construction
  frames,           \* the resolutions in flight, by permission type
  host,             \* the browser, as far as it has been looked at
  started,          \* history: the types in the order their resolution started
  log               \* history: the settled resolutions, in order

vars == <<pc, permissionTypes, shouldAsk, iterator, results, frames, host, started, log>>

EmptyMap == [t \in {} |-> NoInfo]
Lists == UNION {[1..n -> PermissionTypes] : n \in 0..MaxLen}

NewSetKeepsRepeats(types) == types

\* new Set(permissionTypes), in iteration (= insertion) order
RECURSIVE NewSet(_)
NewSet(types) ==
  IF types = <<>> THEN <<>>
  ELSE LET front == NewSet(SubSeq(types, 1, Len(types) - 1))
           last == types[Len(types)]
       IN IF \E i \in DOMAIN front : front[i] = last THEN front ELSE Append(front, last)

LoopNeverAwaits(inFlight) == TRUE

\* the `await` of the loop body: the loop goes on once the resolution it
\* started has settled
LoopMayAdvance(inFlight) == DOMAIN inFlight = {}

Init ==
  /\ pc = "idle"
  /\ permissionTypes = <<>>
  /\ shouldAsk = FALSE
  /\ iterator = <<>>
  /\ results = EmptyMap
  /\ frames = EmptyMap
  /\ host = [F \in Facets |-> {}]
  /\ started = <<>>
  /\ log = <<>>

Call(types, ask) ==
  /\ pc' = IF NewSet(types) = <<>> THEN "returned" ELSE "running"
  /\ permissionTypes' = types
  /\ shouldAsk' = ask
  /\ iterator' = NewSet(types)
  /\ results' = EmptyMap
  /\ UNCHANGED <<frames, host, started, log>>

getAsync(types) ==
  /\ pc = "idle"
  /\ Call(types, FALSE)

askAsync(types) ==
  /\ pc = "idle"
  /\ Call(types, TRUE)

Without(fs, t) == [x \in DOMAIN fs \ {t} |-> fs[x]]

\* The resolution of t has run up to f.  While f is at an await it stays in
\* flight.  When f has returned, the loop body assigns results[t] and the
\* call returns once nothing is left to visit or in flight; when f has thrown,
\* the promise of the call is rejected.
Continue(t, f, rest) ==
  IF ~Settled(f)
  THEN /\ frames' = (t :> f) @@ frames
       /\ UNCHANGED <<pc, results, log>>
  ELSE /\ frames' = Without(frames, t)
       /\ log' = Append(log, f)
       /\ IF f.pc = "returned"
          THEN /\ results' = (t :> f.info) @@ results
               /\ pc' = IF rest = <<>> /\ DOMAIN frames \subseteq {t}
                        THEN "returned" ELSE "running"
          ELSE /\ results' = results
               /\ pc' = "rejected"

\* One iteration of `for (const permissionType of new Set(permissionTypes))`:
\* getPermissionAsync is called and runs to its first await.
LoopNext ==
  /\ pc = "running"
  /\ iterator # <<>>
  /\ LoopMayAdvance(frames)
  /\ LET permissionType == Head(iterator)
         f == NewFrame(permissionType)
     IN /\ \E h1 \in Reveal(host, Facet1(f)) :
             \E h2 \in Reveal(h1, Facet2(f, shouldAsk, h1)) : host' = h2
        /\ started' = Append(started, permissionType)
        /\ Continue(permissionType, ToAwait(f, shouldAsk), Tail(iterator))
  /\ iterator' = Tail(iterator)
  /\ UNCHANGED <<permissionTypes, shouldAsk>>

\* The resolution of t is in flight, at the await `at`.
At(t, at) ==
  /\ pc = "running"
  /\ t \in DOMAIN frames
  /\ frames[t].pc = at

\* The resolution of t runs from its await to its next await; the host
\* decides the facets this stretch of code looks at.
Advance(t) ==
  /\ \E h1 \in Reveal(host, Facet1(frames[t])) :
       \E h2 \in Reveal(h1, Facet2(frames[t], shouldAsk, h1)) :
         /\ host' = h2
         /\ Continue(t, StepFn(frames[t], shouldAsk, h2), iterator)
  /\ UNCHANGED <<permissionTypes, shouldAsk, iterator, started>>

QueryPermission(t) ==
  /\ At(t, "query")
  /\ Advance(t)

ReadNotification(t) ==
  /\ At(t, "notification")
  /\ Advance(t)

RequestNotificationPermission(t) ==
  /\ At(t, "requestPermission")
  /\ Advance(t)

AskForLocation(t) ==
  /\ At(t, "askLocation")
  /\ Advance(t)

AskForMedia(t) ==
  /\ At(t, "askMedia")
  /\ Advance(t)

EnumerateMedia(t) ==
  /\ At(t, "enumerate")
  /\ Advance(t)

Next ==
  \/ \E types \in Lists : getAsync(types)
  \/ \E types \in Lists : askAsync(types)
  \/ LoopNext
  \/ \E t \in PermissionTypes : QueryPermission(t)
  \/ \E t \in PermissionTypes : ReadNotification(t)
  \/ \E t \in PermissionTypes : RequestNotificationPermission(t)
  \/ \E t \in PermissionTypes : AskForLocation(t)
  \/ \E t \in PermissionTypes : AskForMedia(t)
  \/ \E t \in PermissionTypes : EnumerateMedia(t)

\* getAsync / askAsync as a function of the host: the PermissionMap the loop
\* builds when every resolution returns.
RECURSIVE Resolutions(_, _, _, _)
Resolutions(it, ask, h, acc) ==
  IF it = <<>> THEN acc
  ELSE LET f == getPermissionAsync(NewFrame(Head(it)), ask, h)
       IN Resolutions(Tail(it), ask, h, (Head(it) :> f.info) @@ acc)

BatchMap(types, ask, h) == Resolutions(NewSet(types), ask, h, EmptyMap)

Spec == Init /\ [][Next]_vars

(***************************************************************************)
(* Vocabulary of the properties                                            *)
(***************************************************************************)
Range(seq) == {seq[i] : i \in DOMAIN seq}
Count(seq, x) == Cardinality({i \in DOMAIN seq : seq[i] = x})
Settlements == Range(log)
InFlight == {frames[t] : t \in DOMAIN frames}
Entered(f, fn) == fn \in Range(f.trail)
PromptingApis ==
  GetUserMediaImpls \cup {GetCurrentPositionCall[1], RequestPermissionCall[1]}
Prompts(f) == {c \in Range(f.calls) : c[1] \in PromptingApis}
Is(h, F, v) == Observed(h, F) /\ Val(h, F) = v

\* the list without the later occurrences of a type
RECURSIVE RemoveRepeats(_)
RemoveRepeats(seq) ==
  IF seq = <<>> THEN <<>>
  ELSE <<Head(seq)>> \o RemoveRepeats(SelectSeq(Tail(seq), LAMBDA x : x # Head(seq)))

\* what navigator.permissions.query answers for the name of f's type:
\* a state, "reject", or "no-query" without the capability
QueryReport(f) ==
  IF QueryName(f.permission) = NULL \/ ~Is(host, HasQuery, "present") THEN "no-query"
  ELSE Val(host, QueryOf(QueryName(f.permission)))

(***************************************************************************)
(* C1: resolving never throws or rejects: whatever the host does, getAsync *)
(* and askAsync complete with a PermissionMap and no host failure reaches  *)
(* the caller.                                                             *)
(***************************************************************************)
C1_NeverRejects ==
  /\ pc # "rejected"
  /\ \A f \in Settlements \cup InFlight : f.pc # "thrown"

(***************************************************************************)
(* C2: getAsync is passive: no execution of getAsync ever invokes          *)
(* getUserMedia, geolocation.getCurrentPosition or                         *)
(* Notification.requestPermission, nor enters the code that would.         *)
(***************************************************************************)
C2_GetAsyncNeverPrompts ==
  ~shouldAsk =>
    \A f \in Settlements \cup InFlight :
      /\ Prompts(f) = {}
      /\ f.pc \notin {"requestPermission", "askLocation", "askMedia"}
      /\ ~Entered(f, "askForLocationPermissionAsync")
      /\ ~Entered(f, "askForMediaPermissionAsync")

\* a getAsync that returned after it used the capability query, the current
\* Notification.permission and the device enumeration
C2_Witness ==
  /\ pc = "returned"
  /\ ~shouldAsk
  /\ \E f \in Settlements : f.permission \in NotificationTypes /\ QueryReport(f) = "unknown-state"
  /\ Observed(host, NotificationPermission)
  /\ \E f \in Settlements : Entered(f, "getMediaMaybeGrantedAsync") /\ f.calls # <<>>

(***************************************************************************)
(* C3 as stated: when the query capability reports "granted" for the name  *)
(* matching a permission type, the resolved status is GRANTED, for getAsync*)
(* and askAsync and for every recognized type.                             *)
(***************************************************************************)
C3_GrantedQueryAlwaysGranted ==
  \A f \in Settlements :
    QueryReport(f) = "granted" => f.pc = "returned" /\ f.info.status = GRANTED

(***************************************************************************)
(* C3 amended: when the query capability reports "granted" for the name    *)
(* matching a permission type, the resolved status is GRANTED for location,*)
(* audioRecording and camera whatever shouldAsk is, and for notifications  *)
(* and userFacingNotifications when not asking.                            *)
(***************************************************************************)
C3_GrantedQueryGrantedWhereConsulted ==
  \A f \in Settlements :
    (QueryReport(f) = "granted" /\ (f.permission \in QueriedTypes \/ ~shouldAsk))
      => f.pc = "returned" /\ f.info.status = GRANTED

C3_Witness ==
  /\ shouldAsk
  /\ \E f \in Settlements :
       f.permission \in QueriedTypes /\ QueryReport(f) = "granted" /\ f.calls # <<>>

C5_MediaRequestStatus ==
  \A f \in Settlements :
    Entered(f, "askForMediaPermissionAsync") =>
      /\ f.pc = "returned"
      /\ LET impl == Val(host, GetUserMediaImpl)
         IN IF impl = "unimplemented"
            THEN f.info.status = DENIED
            ELSE LET answer == Val(host, GetUserMediaCall(impl, Constraint(f.permission)))
                 IN /\ answer.ok => f.info.status = GRANTED
                    /\ (~answer.ok /\ answer.message = "Permission dismissed")
                         => f.info.status = UNDETERMINED
                    /\ (~answer.ok /\ answer.message # "Permission dismissed")
                         => f.info.status = DENIED

\* one request dismissed and another one failed otherwise, in the same call
C5_Witness ==
  /\ \E f \in Settlements :
       /\ Entered(f, "askForMediaPermissionAsync")
       /\ Is(host, GetUserMediaImpl, "mediaDevices.getUserMedia()")
       /\ Val(host, GetUserMediaCall("mediaDevices.getUserMedia()", Constraint(f.permission)))
            = [ok |-> FALSE, message |-> "Permission dismissed"]
  /\ \E f \in Settlements :
       /\ Entered(f, "askForMediaPermissionAsync")
       /\ Is(host, GetUserMediaImpl, "mediaDevices.getUserMedia()")
       /\ Val(host, GetUserMediaCall("mediaDevices.getUserMedia()", Constraint(f.permission)))
            = [ok |-> FALSE, message |-> "Requested device not found"]

(***************************************************************************)
(* C6: an active geolocation position request resolves to GRANTED on       *)
(* success, to DENIED on a failure with code 1 and to UNDETERMINED on a    *)
(* failure with any other code.                                            *)
(***************************************************************************)
C6_PositionRequestStatus ==
  \A f \in Settlements :
    GetCurrentPositionCall \in Range(f.calls) =>
      /\ f.pc = "returned"
      /\ LET answer == Val(host, GetCurrentPositionCall)
         IN /\ answer.ok => f.info.status = GRANTED
            /\ (~answer.ok /\ answer.code = 1) => f.info.status = DENIED
            /\ (~answer.ok /\ answer.code # 1) => f.info.status = UNDETERMINED

C6_Witness ==
  \E f \in Settlements :
    /\ GetCurrentPositionCall \in Range(f.calls)
    /\ Val(host, GetCurrentPositionCall) = [ok |-> FALSE, code |-> 1]
    /\ QueryReport(f) = "prompt"

(***************************************************************************)
(* C7: a permission type that is none of notifications,                    *)
(* userFacingNotifications, location, audioRecording, camera resolves to   *)
(* {status: UNDETERMINED, expires: 'never'} for both values of shouldAsk   *)
(* and touches no host API.                                                *)
(***************************************************************************)
C7_UnrecognizedUndetermined ==
  /\ \A f \in Settlements \cup InFlight :
       f.permission \notin NotificationTypes \cup QueriedTypes =>
         /\ f.pc = "returned"
         /\ f.info = [status |-> UNDETERMINED, expires |-> "never"]
         /\ f.calls = <<>>
         /\ f.trail = <<>>
  /\ Range(started) \cap (NotificationTypes \cup QueriedTypes) = {}
       => \A F \in Facets : ~Observed(host, F)

C7_Witness ==
  /\ pc = "returned"
  /\ shouldAsk
  /\ \E t \in DOMAIN results :
       t \notin NotificationTypes \cup QueriedTypes /\ results[t].status = UNDETERMINED

(***************************************************************************)
(* C8: for audioRecording and camera, when not asking and the capability   *)
(* query gives no answer, the status is GRANTED exactly when some          *)
(* enumerated device of the matching kind has a non-empty label and        *)
(* UNDETERMINED otherwise; the fallback never yields DENIED.               *)
(***************************************************************************)
LabelledDevice(f) ==
  /\ ~Is(host, EnumerateImpl, "unsupported")
  /\ LET answer == Val(host, EnumerateCall(Val(host, EnumerateImpl)))
     IN /\ answer.outcome = "list"
        /\ \E d \in answer.devices :
             d.kind = (IF f.permission = "audioRecording" THEN "audioinput" ELSE "videoinput")
             /\ d.label # ""

C8_EnumerationFallback ==
  \A f \in Settlements :
    (f.permission \in MediaTypes /\ ~shouldAsk
       /\ QueryReport(f) \in {"no-query", "unknown-state"}) =>
      /\ f.pc = "returned"
      /\ f.info.status = (IF LabelledDevice(f) THEN GRANTED ELSE UNDETERMINED)

(***************************************************************************)
(* C9: in askAsync, for location, audioRecording and camera, a prompting   *)
(* request is issued if and only if the capability query did not report    *)
(* granted or denied; when it reports granted or denied that status is     *)
(* returned as is and no prompting request is made.                        *)
(***************************************************************************)
Asked(f) ==
  Entered(f, "askForLocationPermissionAsync") \/ Entered(f, "askForMediaPermissionAsync")

C9_PromptIffUndecided ==
  \A f \in Settlements :
    (shouldAsk /\ f.permission \in QueriedTypes) =>
      /\ Asked(f) <=> QueryReport(f) \notin {"granted", "denied"}
      /\ QueryReport(f) \in {"granted", "denied"} =>
           f.pc = "returned" /\ f.info.status = QueryReport(f) /\ Prompts(f) = {}

====
